---- MODULE Spec2Model ----
(***************************************************************************)
(* Retrieval and ranking engine of ArchBot (package rdb.retrieval):        *)
(* IndexManager (index_manager.py) and DocumentRetriever (retriever.py).   *)
(*                                                                         *)
(* Python strings are sequences of one-character strings, so that lower(), *)
(* split(), replace() and the substring test are computed as Python       *)
(* computes them.  Scores are exact rationals <<numerator, denominator>>   *)
(* in lowest terms (float rounding is not modelled).                       *)
(*                                                                         *)
(* Spec is one client calling load_index and search; IndexSpec is the      *)
(* IndexManager called directly (load_index, search, get_stats,            *)
(* rebuild_index); RebuildSpec interleaves the two assignments of          *)
(* rebuild_index with the steps of a search; HangSpec adds a refiner call  *)
(* (refiner.py) that does not complete; SaveSpec saves to and loads from   *)
(* the index directory; CliSpec is one run of the search command           *)
(* (cli/search.py); InteractiveSpec is search_interactive reading standard *)
(* input; DbSpec is DatabaseManager.cleanup_old_data (storage/database.py).*)
(***************************************************************************)
EXTENDS Integers, Sequences, FiniteSets, TLC

(* ------------------------------ bounds -------------------------------- *)
\* largest top_k a caller passes explicitly
MaxTopK == 3
\* largest number of vectors in an index file
MaxVectors == 2

\* Python None and a present value: the empty and the one-element sequence
None == << >>
Some(x) == <<x>>
Val(o) == o[1]
\* top_k = None in a call
NoneK == -1

(* ------------------------- Python str operations ---------------------- *)
Upper == <<"A","B","C","D","E","F","G","H","I","J","K","L","M","N","O","P","Q","R","S","T","U","V","W","X","Y","Z">>
Lowercase == <<"a","b","c","d","e","f","g","h","i","j","k","l","m","n","o","p","q","r","s","t","u","v","w","x","y","z">>

UpperSet == { Upper[i] : i \in 1..26 }
LowerOf == [c \in UpperSet |-> Lowercase[CHOOSE i \in 1..26 : Upper[i] = c]]

\* str.lower() on one character
LowerChar(c) == IF c \in UpperSet THEN LowerOf[c] ELSE c

\* str.lower()
Lower(s) == [i \in 1..Len(s) |-> LowerChar(s[i])]

\* t in s, for two strings
Contains(s, t) ==
    \E i \in 0..(Len(s) - Len(t)) : \A j \in 1..Len(t) : s[i + j] = t[j]

\* s[:n]
Prefix(s, n) == SubSeq(s, 1, IF Len(s) < n THEN Len(s) ELSE n)

\* s.replace(a, b) for single characters a, b
ReplaceChar(s, a, b) == [i \in 1..Len(s) |-> IF s[i] = a THEN b ELSE s[i]]

IsSpace(c) == c \in {" ", "\t", "\n"}

\* set(s.split()): the maximal runs of non-whitespace characters
SplitSet(s) ==
    { SubSeq(s, i, j) : <<i, j>> \in
        { p \in (1..Len(s)) \X (1..Len(s)) :
            /\ p[1] <= p[2]
            /\ \A k \in p[1]..p[2] : ~IsSpace(s[k])
            /\ (p[1] = 1 \/ IsSpace(s[p[1] - 1]))
            /\ (p[2] = Len(s) \/ IsSpace(s[p[2] + 1])) } }

RECURSIVE Repeat(_, _)
\* s * n
Repeat(s, n) == IF n <= 0 THEN << >> ELSE s \o Repeat(s, n - 1)

(* --------------------------- exact arithmetic ------------------------- *)
Abs(n) == IF n < 0 THEN -n ELSE n

RECURSIVE GCD(_, _)
GCD(a, b) == IF b = 0 THEN a ELSE GCD(b, a % b)

\* the rational n/d (d > 0) in lowest terms
Rat(n, d) == LET g == GCD(Abs(n), d) IN <<n \div g, d \div g>>

\* x * (p/q), reduced before multiplying
RatMul(x, f) ==
    LET g1 == GCD(Abs(x[1]), f[2])
        g2 == GCD(Abs(f[1]), x[2])
    IN  Rat((x[1] \div g1) * (f[1] \div g2), (x[2] \div g2) * (f[2] \div g1))

RECURSIVE FracLess(_, _, _, _)
\* a/b < c/d for b, d > 0, by comparing continued-fraction digits
FracLess(a, b, c, d) ==
    LET qa == a \div b
        qc == c \div d
        ra == a % b
        rc == c % d
    IN  IF qa # qc THEN qa < qc
        ELSE IF rc = 0 THEN FALSE
        ELSE IF ra = 0 THEN TRUE
        ELSE FracLess(d, rc, b, ra)

RatLess(x, y) == FracLess(x[1], x[2], y[1], y[2])

RatSign(x) == IF x[1] > 0 THEN 1 ELSE IF x[1] < 0 THEN -1 ELSE 0

\* the backquote character (the lexer does not accept it in a string)
Backtick == "BACKQUOTE"
Q_wireless == <<"w", "i", "r", "e", "l", "e", "s", "s", " ", "n", "e", "t", "w", "o", "r", "k", " ", "s", "e", "t", "u", "p">>
Q_test == <<"t", "e", "s", "t", " ", "q", "u", "e", "r", "y">>
Q_wifi == <<"w", "i", "f", "i">>
R_refined == <<"N", "e", "t", "w", "o", "r", "k", " ", "c", "o", "n", "f", "i", "g", "u", "r", "a", "t", "i", "o", "n", " ", "w", "i", "f", "i">>
R_empty == << >>
s_network_configuration == <<"n", "e", "t", "w", "o", "r", "k", "_", "c", "o", "n", "f", "i", "g", "u", "r", "a", "t", "i", "o", "n">>
s_network_configuration_sp == <<"n", "e", "t", "w", "o", "r", "k", " ", "c", "o", "n", "f", "i", "g", "u", "r", "a", "t", "i", "o", "n">>
s_installation_guide == <<"i", "n", "s", "t", "a", "l", "l", "a", "t", "i", "o", "n", "_", "g", "u", "i", "d", "e">>
s_installation_guide_sp == <<"i", "n", "s", "t", "a", "l", "l", "a", "t", "i", "o", "n", " ", "g", "u", "i", "d", "e">>
s_system_administration == <<"s", "y", "s", "t", "e", "m", " ", "a", "d", "m", "i", "n", "i", "s", "t", "r", "a", "t", "i", "o", "n">>
s_getting_started == <<"g", "e", "t", "t", "i", "n", "g", " ", "s", "t", "a", "r", "t", "e", "d">>
s_beginners_guide == <<"b", "e", "g", "i", "n", "n", "e", "r", "s", " ", "g", "u", "i", "d", "e">>
s_general_configuration == <<"g", "e", "n", "e", "r", "a", "l", " ", "c", "o", "n", "f", "i", "g", "u", "r", "a", "t", "i", "o", "n">>
s_wifi == <<"w", "i", "f", "i">>
s_wireless == <<"w", "i", "r", "e", "l", "e", "s", "s">>
s_wi_fi == <<"w", "i", "-", "f", "i">>
s_network == <<"n", "e", "t", "w", "o", "r", "k">>
s_iwctl == <<"i", "w", "c", "t", "l">>
s_networkmanager == <<"n", "e", "t", "w", "o", "r", "k", "m", "a", "n", "a", "g", "e", "r">>
s_internet == <<"i", "n", "t", "e", "r", "n", "e", "t">>
s_connection == <<"c", "o", "n", "n", "e", "c", "t", "i", "o", "n">>
s_dhcp == <<"d", "h", "c", "p">>
s_connect == <<"c", "o", "n", "n", "e", "c", "t">>
s_setup == <<"s", "e", "t", "u", "p">>
s_configuration == <<"c", "o", "n", "f", "i", "g", "u", "r", "a", "t", "i", "o", "n">>
s_install == <<"i", "n", "s", "t", "a", "l", "l">>
s_guide == <<"g", "u", "i", "d", "e">>
s_installation == <<"i", "n", "s", "t", "a", "l", "l", "a", "t", "i", "o", "n">>
s_sound == <<"s", "o", "u", "n", "d">>
s_audio == <<"a", "u", "d", "i", "o">>
s_alsa == <<"a", "l", "s", "a">>
s_pulseaudio == <<"p", "u", "l", "s", "e", "a", "u", "d", "i", "o">>
s_graphics == <<"g", "r", "a", "p", "h", "i", "c", "s">>
s_video == <<"v", "i", "d", "e", "o">>
s_gpu == <<"g", "p", "u">>
s_driver == <<"d", "r", "i", "v", "e", "r">>
s_xorg == <<"x", "o", "r", "g">>
s_boot == <<"b", "o", "o", "t">>
s_grub == <<"g", "r", "u", "b">>
s_systemd == <<"s", "y", "s", "t", "e", "m", "d">>
s_bootloader == <<"b", "o", "o", "t", "l", "o", "a", "d", "e", "r">>
s_package == <<"p", "a", "c", "k", "a", "g", "e">>
s_pacman == <<"p", "a", "c", "m", "a", "n">>
s_aur == <<"a", "u", "r">>
s_makepkg == <<"m", "a", "k", "e", "p", "k", "g">>
s_troubleshooting == <<"t", "r", "o", "u", "b", "l", "e", "s", "h", "o", "o", "t", "i", "n", "g">>
s_overview == <<"o", "v", "e", "r", "v", "i", "e", "w">>
s_manual == <<"m", "a", "n", "u", "a", "l">>
s_documentation == <<"d", "o", "c", "u", "m", "e", "n", "t", "a", "t", "i", "o", "n">>
s_configure == <<"c", "o", "n", "f", "i", "g", "u", "r", "e">>
s_enable == <<"e", "n", "a", "b", "l", "e">>
s_edit == <<"e", "d", "i", "t">>
s_create == <<"c", "r", "e", "a", "t", "e">>
s_sudo == <<"s", "u", "d", "o">>
s_systemctl == <<"s", "y", "s", "t", "e", "m", "c", "t", "l">>
s_how == <<"h", "o", "w">>
s_fence == <<Backtick, Backtick, Backtick>>
t_NetworkManager == <<"N", "e", "t", "w", "o", "r", "k", "M", "a", "n", "a", "g", "e", "r">>
t_Configuration == <<"C", "o", "n", "f", "i", "g", "u", "r", "a", "t", "i", "o", "n">>
c_NetworkManager == <<"C", "o", "n", "f", "i", "g", "u", "r", "e", " ", "N", "e", "t", "w", "o", "r", "k", "M", "a", "n", "a", "g", "e", "r", " ", "f", "o", "r", " ", "w", "i", "r", "e", "l", "e", "s", "s", " ", "c", "o", "n", "n", "e", "c", "t", "i", "o", "n", "s">>
t_WirelessConfiguration == <<"W", "i", "r", "e", "l", "e", "s", "s", " ", "C", "o", "n", "f", "i", "g", "u", "r", "a", "t", "i", "o", "n">>
t_iwctl == <<"i", "w", "c", "t", "l">>
c_Wireless == <<"U", "s", "e", " ", "i", "w", "c", "t", "l", " ", "t", "o", " ", "m", "a", "n", "a", "g", "e", " ", "w", "i", "r", "e", "l", "e", "s", "s", " ", "c", "o", "n", "n", "e", "c", "t", "i", "o", "n", "s">>
t_TestPage1 == <<"T", "e", "s", "t", " ", "P", "a", "g", "e", " ", "1">>
t_TestPage2 == <<"T", "e", "s", "t", " ", "P", "a", "g", "e", " ", "2">>
t_TestPage3 == <<"T", "e", "s", "t", " ", "P", "a", "g", "e", " ", "3">>
t_Section1 == <<"S", "e", "c", "t", "i", "o", "n", " ", "1">>
t_Section2 == <<"S", "e", "c", "t", "i", "o", "n", " ", "2">>
t_Section3 == <<"S", "e", "c", "t", "i", "o", "n", " ", "3">>
c_Test1 == <<"T", "e", "s", "t", " ", "c", "o", "n", "t", "e", "n", "t", " ", "1">>
c_Test2 == <<"T", "e", "s", "t", " ", "c", "o", "n", "t", "e", "n", "t", " ", "2">>
c_Test3 == <<"T", "e", "s", "t", " ", "c", "o", "n", "t", "e", "n", "t", " ", "3">>
t_WiFi == <<"W", "i", "-", "F", "i">>
t_wifi == <<"w", "i", "f", "i">>
t_Usage == <<"U", "s", "a", "g", "e">>
c_WiFi == <<"C", "o", "n", "n", "e", "c", "t", " ", "w", "i", "t", "h", " ", "i", "w", "c", "t", "l">>
t_NetworkConfiguration == <<"N", "e", "t", "w", "o", "r", "k", " ", "c", "o", "n", "f", "i", "g", "u", "r", "a", "t", "i", "o", "n", "/", "I", "n", "s", "t", "a", "l", "l", "a", "t", "i", "o", "n", " ", "g", "u", "i", "d", "e">>
t_SetupGuide == <<"S", "e", "t", "u", "p", " ", "g", "u", "i", "d", "e">>
c_NetHead == <<"I", "n", "s", "t", "a", "l", "l", " ", "i", "w", "d", ",", " ", "e", "n", "a", "b", "l", "e", " ", "t", "h", "e", " ", "s", "e", "r", "v", "i", "c", "e", " ", "w", "i", "t", "h", " ", "s", "u", "d", "o", " ", "s", "y", "s", "t", "e", "m", "c", "t", "l", " ", "a", "n", "d", " ", "c", "o", "n", "f", "i", "g", "u", "r", "e", " ", "i", "t", ".", " ">>
c_Pad == <<"E", "d", "i", "t", " ", "t", "h", "e", " ", "f", "i", "l", "e", " ", "a", "n", "d", " ", "c", "r", "e", "a", "t", "e", " ", "t", "h", "e", " ", "p", "r", "o", "f", "i", "l", "e", ".", " ">>
t_InstallationGuide == <<"I", "n", "s", "t", "a", "l", "l", "a", "t", "i", "o", "n", "_", "g", "u", "i", "d", "e", "/", "G", "e", "t", "t", "i", "n", "g", " ", "s", "t", "a", "r", "t", "e", "d">>
t_Preinstallation == <<"P", "r", "e", "-", "i", "n", "s", "t", "a", "l", "l", "a", "t", "i", "o", "n">>
c_GuideHead == <<Backtick, Backtick, Backtick, "p", "a", "c", "m", "a", "n", " ", "-", "S", "y", "u", Backtick, Backtick, Backtick, " ">>
(* ------------------------------ test data ----------------------------- *)
\* c_Net is longer than 1000 characters, c_Guide longer than 500
c_Net == c_NetHead \o Repeat(c_Pad, 25)
c_Guide == c_GuideHead \o Repeat(c_Pad, 13)

(* ----------------------------- query refiner ------------------------- *)
p_technical == <<"T", "e", "c", "h", "n", "i", "c", "a", "l", " ", "s", "e", "a", "r", "c", "h", " ", "q", "u", "e", "r", "y", ":">>
p_search_terms == <<"S", "e", "a", "r", "c", "h", " ", "t", "e", "r", "m", "s", ":">>
p_refined == <<"R", "e", "f", "i", "n", "e", "d", " ", "q", "u", "e", "r", "y", ":">>
p_query == <<"Q", "u", "e", "r", "y", ":">>

\* text the language model generated after the prompt
raw_refined == <<" ", "Q", "u", "e", "r", "y", ":", " ", "N", "e", "t", "w", "o", "r", "k", " ", "c", "o", "n", "f", "i", "g", "u", "r", "a", "t", "i", "o", "n", " ", "w", "i", "f", "i", " ", "W", "i", "f", "i", "\n", "U", "s", "e", "r", ":">>
raw_blank == <<" ", " ", "\n", " ">>
raw_quotes == <<"\"", "\"">>

RawResponses == {raw_refined, raw_blank, raw_quotes}

\* str.strip()
FirstNonSpace(s) ==
    IF \A i \in 1..Len(s) : IsSpace(s[i]) THEN Len(s) + 1
    ELSE CHOOSE i \in 1..Len(s) : ~IsSpace(s[i]) /\ \A j \in 1..(i - 1) : IsSpace(s[j])
LastNonSpace(s) ==
    IF \A i \in 1..Len(s) : IsSpace(s[i]) THEN 0
    ELSE CHOOSE i \in 1..Len(s) : ~IsSpace(s[i]) /\ \A j \in (i + 1)..Len(s) : IsSpace(s[j])
Strip(s) == SubSeq(s, FirstNonSpace(s), LastNonSpace(s))

\* str.startswith, str.endswith
StartsWith(s, p) == Len(p) <= Len(s) /\ SubSeq(s, 1, Len(p)) = p
EndsWith(s, p) == Len(p) <= Len(s) /\ SubSeq(s, Len(s) - Len(p) + 1, Len(s)) = p

\* response[1:-1] when the response starts and ends with a double quote
RemoveQuotes(s) ==
    IF StartsWith(s, <<"\"">>) /\ EndsWith(s, <<"\"">>) THEN SubSeq(s, 2, Len(s) - 1) ELSE s

\* response.split('\n')[0] when the response holds a newline
FirstLine(s) ==
    IF \E i \in 1..Len(s) : s[i] = "\n"
    THEN SubSeq(s, 1, (CHOOSE i \in 1..Len(s) : s[i] = "\n" /\ \A j \in 1..(i - 1) : s[j] # "\n") - 1)
    ELSE s

prefixes_to_remove == <<p_technical, p_search_terms, p_refined, p_query>>

RECURSIVE RemovePrefixes(_, _)
\* the loop over prefixes_to_remove, from prefix number n on
RemovePrefixes(s, n) ==
    IF n > Len(prefixes_to_remove) THEN s
    ELSE IF StartsWith(Lower(s), Lower(prefixes_to_remove[n]))
         THEN RemovePrefixes(Strip(SubSeq(s, Len(prefixes_to_remove[n]) + 1, Len(s))), n + 1)
         ELSE RemovePrefixes(s, n + 1)

RECURSIVE Words(_)
\* str.split(): the words in order
Words(s) ==
    LET t == SubSeq(s, FirstNonSpace(s), Len(s))
        n == IF \E i \in 1..Len(t) : IsSpace(t[i])
             THEN (CHOOSE i \in 1..Len(t) : IsSpace(t[i]) /\ \A j \in 1..(i - 1) : ~IsSpace(t[j])) - 1
             ELSE Len(t)
    IN  IF t = << >> THEN << >>
        ELSE << SubSeq(t, 1, n) >> \o Words(SubSeq(t, n + 1, Len(t)))

RECURSIVE StripChars(_, _)
\* str.strip(chars)
StripChars(w, cs) ==
    IF w = << >> THEN w
    ELSE IF w[1] \in cs THEN StripChars(Tail(w), cs)
    ELSE IF w[Len(w)] \in cs THEN StripChars(SubSeq(w, 1, Len(w) - 1), cs)
    ELSE w

RECURSIVE FilterWords(_, _)
\* the repetition filter: a word is kept the first time its cleaned,
\* lowercased form is seen
FilterWords(words, seen) ==
    IF words = << >> THEN << >>
    ELSE LET clean_word == Lower(StripChars(Head(words), {"\"", ",", "."}))
         IN  IF clean_word \in seen
             THEN FilterWords(Tail(words), seen)
             ELSE << Head(words) >> \o FilterWords(Tail(words), seen \cup {clean_word})

RECURSIVE Join(_)
\* ' '.join(words)
Join(words) ==
    IF words = << >> THEN << >>
    ELSE IF Len(words) = 1 THEN words[1]
    ELSE words[1] \o <<" ">> \o Join(Tail(words))

\* the length limit of _clean_response
MaxResponseLen == 200

LimitLength(s) == IF Len(s) > MaxResponseLen THEN Strip(SubSeq(s, 1, MaxResponseLen)) ELSE s

\* QueryRefiner._clean_response
clean_response(response) ==
    LimitLength(Join(FilterWords(Words(RemovePrefixes(FirstLine(RemoveQuotes(Strip(response))), 1)), {})))

\* QueryRefiner.refine_query, lines 127-135: the text after the prompt,
\* stripped and cleaned
refined_text(raw) == clean_response(Strip(raw))


Chunk(title, path, content, url, type, level) ==
    [page_title |-> title, section_path |-> path, content |-> content,
     url |-> url, chunk_type |-> type, section_level |-> level]

\* the corpus of tests/test_retriever.py, test_end_to_end_retrieval_workflow
CorpusE2E ==
    << Chunk(t_NetworkManager, t_Configuration, c_NetworkManager, "NetworkManager", "medium", 2),
       Chunk(t_WirelessConfiguration, t_iwctl, c_Wireless, "Iwd", "small", 3) >>

\* the corpus of tests/test_retriever.py, test_search_success
CorpusTest ==
    << Chunk(t_TestPage1, t_Section1, c_Test1, "test1", "medium", 2),
       Chunk(t_TestPage2, t_Section2, c_Test2, "test2", "small", 3),
       Chunk(t_TestPage3, t_Section3, c_Test3, "test3", "large", 1) >>

\* a redirect alias pair with identical content
CorpusWifi ==
    << Chunk(t_WiFi, t_Usage, c_WiFi, "Wi-Fi", "small", 2),
       Chunk(t_wifi, t_Usage, c_WiFi, "wifi", "medium", 2) >>

\* an authoritative page and a general guide, with long contents
CorpusGuide ==
    << Chunk(t_NetworkConfiguration, t_SetupGuide, c_Net, "Network_configuration", "large", 1),
       Chunk(t_InstallationGuide, t_Preinstallation, c_Guide, "Installation_guide", "medium", 1) >>

\* a corpus of one chunk
CorpusOne == << Chunk(t_TestPage1, t_Section1, c_Test1, "test1", "medium", 2) >>

Corpora == {CorpusE2E, CorpusTest, CorpusWifi, CorpusGuide, CorpusOne, << >>}

Queries == {Q_wireless, Q_test, Q_wifi}

\* strings a refiner call can return
RefinerOutputs == { refined_text(raw) : raw \in RawResponses }

\* stored vectors, components in hundredths
Vecs == { <<95, 70>>, <<87, 90>>, <<0, -20>> }

\* inner-product index files: dimension and one vector per position
IndexImages ==
    UNION { { [d |-> 2, vectors |-> v] : v \in [1..n -> Vecs] } : n \in 0..MaxVectors }

\* a file of the index directory: absent, unreadable, or readable with data
Missing == [state |-> "missing", data |-> None]
Corrupt == [state |-> "corrupt", data |-> None]
File(x) == [state |-> "ok", data |-> Some(x)]

IndexFiles == {Missing, Corrupt} \cup { File(x) : x \in IndexImages }
MetadataFiles == {Missing, Corrupt} \cup { File(x) : x \in Corpora }

(* ----------------------------- configuration -------------------------- *)
\* Config.default_top_k
default_top_k == 5

(* ------------------------- embedding capability ----------------------- *)
\* EmbeddingModel.encode_query: a fixed function of the text
encode_query(text) ==
    IF text \in {Q_wifi, R_refined} THEN <<0, 3>> ELSE <<2, 0>>

\* integer square root of a perfect square
Norm(v) == CHOOSE n \in 0..(Abs(v[1]) + Abs(v[2])) : n * n = v[1] * v[1] + v[2] * v[2]

\* faiss.normalize_L2 (the zero vector is left as it is)
normalize_L2(v) ==
    IF Norm(v) = 0 THEN v ELSE [i \in 1..Len(v) |-> v[i] \div Norm(v)]

(* ----------------------------- vector index --------------------------- *)
\* score FAISS reports for a missing neighbour (-FLT_MAX), far below any
\* inner product of the stored vectors
NegFltMax == <<-1000000, 1>>

InnerProduct(q, v) == q[1] * v[1] + q[2] * v[2]

\* inner product of the query with the vector at 0-based position id
Similarity(idx, q, id) == Rat(InnerProduct(q, idx.vectors[id + 1]), 100)

\* the best remaining position: highest similarity, lowest position on ties
Best(idx, q, ids) ==
    CHOOSE i \in ids : \A j \in ids :
        \/ RatLess(Similarity(idx, q, j), Similarity(idx, q, i))
        \/ (Similarity(idx, q, j) = Similarity(idx, q, i) /\ i <= j)

RECURSIVE Nearest(_, _, _, _)
\* faiss IndexFlatIP.search for one query: k hits, best first, padded with
\* position -1 when the index holds fewer than k vectors
Nearest(idx, q, ids, k) ==
    IF k <= 0 THEN << >>
    ELSE IF ids = {} THEN <<[score |-> NegFltMax, idx |-> -1]>> \o Nearest(idx, q, ids, k - 1)
    ELSE LET b == Best(idx, q, ids)
         IN  <<[score |-> Similarity(idx, q, b), idx |-> b]>> \o Nearest(idx, q, ids \ {b}, k - 1)

\* a test that looks at the index only
is_loaded_index_only(idx, chs) == idx # None

\* IndexManager.is_loaded
is_loaded(idx, chs) == idx # None /\ chs # None

\* a search that over-fetches and never truncates
RequestedK_overfetch(k) == k * 3

\* the k DocumentRetriever.search passes to IndexManager.search
RequestedK(k) == k

\* IndexManager.search on a loaded index
index_search(idx, q, k) == Nearest(idx, q, 0..(Len(idx.vectors) - 1), k)

\* outcomes of one QueryRefiner.refine_query call
Raised == [raised |-> TRUE, text |-> << >>]
Returned(s) == [raised |-> FALSE, text |-> s]

\* a load that reports success when the metadata file is missing
load_index_no_metadata_check(dsk, idx, chs) ==
    IF dsk.index_file.state # "ok" THEN [ok |-> FALSE, index |-> idx, chunks |-> chs]
    ELSE IF dsk.metadata_file.state # "ok" THEN [ok |-> TRUE, index |-> dsk.index_file.data, chunks |-> chs]
    ELSE [ok |-> TRUE, index |-> dsk.index_file.data, chunks |-> dsk.metadata_file.data]

\* IndexManager.load_index: the fields of the manager after the call and
\* the value returned
load_index(dsk, idx, chs) ==
    IF dsk.index_file.state = "missing" THEN [ok |-> FALSE, index |-> idx, chunks |-> chs]
    ELSE IF dsk.metadata_file.state = "missing" THEN [ok |-> FALSE, index |-> idx, chunks |-> chs]
    ELSE IF dsk.index_file.state = "corrupt" THEN [ok |-> FALSE, index |-> idx, chunks |-> chs]
    ELSE IF dsk.metadata_file.state = "corrupt"
    THEN [ok |-> FALSE, index |-> dsk.index_file.data, chunks |-> chs]
    ELSE [ok |-> TRUE, index |-> dsk.index_file.data, chunks |-> dsk.metadata_file.data]

(* ----------------------------- scoring policy ------------------------- *)
GuidePatterns ==
    { s_installation_guide, s_installation_guide_sp, s_system_administration,
      s_getting_started, s_beginners_guide, s_general_configuration }

\* two independent tests instead of if / elif
AuthoritativeFactors_both_tiers(page_title) ==
    (IF Contains(page_title, s_network_configuration)
          \/ Contains(page_title, s_network_configuration_sp)
     THEN << <<3, 2>> >> ELSE << >>)
    \o (IF \E pattern \in GuidePatterns : Contains(page_title, pattern)
        THEN << <<13, 10>> >> ELSE << >>)

\* 1. authoritative guide detection
AuthoritativeFactors(page_title) ==
    IF Contains(page_title, s_network_configuration)
         \/ Contains(page_title, s_network_configuration_sp)
    THEN << <<3, 2>> >>
    ELSE IF \E pattern \in GuidePatterns : Contains(page_title, pattern)
    THEN << <<13, 10>> >>
    ELSE << >>

topic_keys ==
    { s_wifi, s_wireless, s_internet, s_connect, s_setup, s_install,
      s_sound, s_audio, s_graphics, s_boot, s_package }

topic_mappings(w) ==
    CASE w = s_wifi -> {s_wireless, s_wi_fi, s_network, s_iwctl, s_networkmanager}
      [] w = s_wireless -> {s_wi_fi, s_network, s_iwctl, s_networkmanager}
      [] w = s_internet -> {s_network, s_connection, s_dhcp}
      [] w = s_connect -> {s_connection, s_setup, s_configuration}
      [] w = s_setup -> {s_configuration, s_install, s_guide}
      [] w = s_install -> {s_installation, s_setup, s_guide}
      [] w = s_sound -> {s_audio, s_alsa, s_pulseaudio}
      [] w = s_audio -> {s_sound, s_alsa, s_pulseaudio}
      [] w = s_graphics -> {s_video, s_gpu, s_driver, s_xorg}
      [] w = s_boot -> {s_grub, s_systemd, s_bootloader}
      [] w = s_package -> {s_pacman, s_aur, s_makepkg}

\* 2. topic relevance: the test made on one word of the query
TopicWordMatches(page_title, content, query_word) ==
    /\ query_word \in topic_keys
    /\ \E term \in topic_mappings(query_word) :
          Contains(page_title, term) \/ Contains(Prefix(content, 500), term)

RECURSIVE TopicLoop(_, _, _)
\* the loop over the words, in the order the set yields them: it
\* multiplies once and breaks
TopicLoop(page_title, content, words) ==
    IF words = << >> THEN << >>
    ELSE IF TopicWordMatches(page_title, content, Head(words)) THEN << <<6, 5>> >>
    ELSE TopicLoop(page_title, content, Tail(words))

\* a loop that breaks after the first word whether it matched or not
TopicFactors_first_word(page_title, content, words) ==
    IF words # << >> /\ TopicWordMatches(page_title, content, Head(words)) THEN << <<6, 5>> >> ELSE << >>

\* the topic multiplier for words iterated in the given order
TopicFactors(page_title, content, words) == TopicLoop(page_title, content, words)

RECURSIVE SeqOf(_)
\* one fixed enumeration of a finite set
SeqOf(S) ==
    IF S = {} THEN << >>
    ELSE LET x == CHOOSE x \in S : TRUE IN << x >> \o SeqOf(S \ {x})

\* orders in which a set of words can be iterated (the order of a Python
\* set of strings depends on the hash seed of the process): every word
\* can come first
IterationOrders(S) ==
    IF S = {} THEN { << >> } ELSE { << w >> \o SeqOf(S \ {w}) : w \in S }

\* query_words.union(original_query_words)
TopicWords(query, original_query) ==
    SplitSet(Lower(query)) \cup SplitSet(Lower(original_query))

comprehensiveness_indicators ==
    { s_configuration, s_setup, s_installation, s_troubleshooting,
      s_overview, s_guide, s_manual, s_documentation }

\* 3. comprehensiveness indicators
ComprehensivenessFactors(page_title, section_path) ==
    IF Cardinality({ indicator \in comprehensiveness_indicators :
           Contains(page_title, indicator) \/ Contains(section_path, indicator) }) >= 2
    THEN << <<5, 4>> >>
    ELSE << >>

config_indicators == { s_install, s_configure, s_setup, s_enable, s_edit, s_create }

\* 4. content quality; raw is the content as stored, content its lower()
QualityFactors(raw, content) ==
    (IF Len(raw) > 1000 THEN << <<23, 20>> >>
     ELSE IF Len(raw) > 500 THEN << <<11, 10>> >>
     ELSE << >>)
    \o (IF Cardinality({ indicator \in config_indicators : Contains(content, indicator) }) >= 3
        THEN << <<11, 10>> >> ELSE << >>)
    \o (IF Contains(raw, s_fence)
            \/ \E cmd \in {s_sudo, s_systemctl, s_pacman} : Contains(content, cmd)
        THEN << <<21, 20>> >> ELSE << >>)

user_wants_overview(original_query) ==
    \E word \in {s_how, s_setup, s_configure, s_install, s_guide} :
        Contains(Lower(original_query), word)

\* a penalty that wipes the score out
SmallOverviewFactor_zero == <<0, 1>>

\* multiplier for a small chunk when the query asks for an overview
SmallOverviewFactor == <<19, 20>>

\* a preference that puts medium chunks above large ones
ChunkTypeFactors_medium_first(chunk_type, original_query) ==
    IF user_wants_overview(original_query)
    THEN CASE chunk_type = "large" -> << <<11, 10>> >>
           [] chunk_type = "medium" -> << <<6, 5>> >>
           [] chunk_type = "small" -> << SmallOverviewFactor >>
           [] OTHER -> << >>
    ELSE IF chunk_type = "small" THEN << <<11, 10>> >> ELSE << >>

\* 5. chunk type optimization
ChunkTypeFactors(chunk_type, original_query) ==
    IF user_wants_overview(original_query)
    THEN CASE chunk_type = "large" -> << <<6, 5>> >>
           [] chunk_type = "medium" -> << <<11, 10>> >>
           [] chunk_type = "small" -> << SmallOverviewFactor >>
           [] OTHER -> << >>
    ELSE IF chunk_type = "small" THEN << <<11, 10>> >> ELSE << >>

\* set(page_title.replace('_', ' ').replace('/', ' ').split())
TitleWords(page_title) == SplitSet(ReplaceChar(ReplaceChar(page_title, "_", " "), "/", " "))

\* a boost of the whole ratio instead of half of it
ExactMatchQuery_full(page_title, query_words) ==
    LET query_intersection == query_words \cap TitleWords(page_title)
    IN  IF query_intersection # {}
        THEN << Rat(Cardinality(query_words) + Cardinality(query_intersection),
                    Cardinality(query_words)) >>
        ELSE << >>

\* 6. exact match boosting, lines 192-194: 1 + match_ratio * 0.5
ExactMatchQuery(page_title, query_words) ==
    LET query_intersection == query_words \cap TitleWords(page_title)
    IN  IF query_intersection # {}
        THEN << Rat(2 * Cardinality(query_words) + Cardinality(query_intersection),
                    2 * Cardinality(query_words)) >>
        ELSE << >>

\* lines 196-198: 1 + match_ratio * 0.3
ExactMatchOriginal(page_title, original_query_words) ==
    LET original_intersection == original_query_words \cap TitleWords(page_title)
    IN  IF original_intersection # {}
        THEN << Rat(10 * Cardinality(original_query_words) + 3 * Cardinality(original_intersection),
                    10 * Cardinality(original_query_words)) >>
        ELSE << >>

\* the multipliers the scoring loop applies to one result, block by block
FactorBlocks(result, query, original_query, order) ==
    LET page_title == Lower(result.page_title)
        section_path == Lower(result.section_path)
        content == Lower(result.content)
        query_words == SplitSet(Lower(query))
        original_query_words == SplitSet(Lower(original_query))
    IN  [authoritative |-> AuthoritativeFactors(page_title),
         topic |-> TopicFactors(page_title, content, order),
         comprehensiveness |-> ComprehensivenessFactors(page_title, section_path),
         quality |-> QualityFactors(result.content, content),
         chunk_type |-> ChunkTypeFactors(result.chunk_type, original_query),
         exact_query |-> ExactMatchQuery(page_title, query_words),
         exact_original |-> ExactMatchOriginal(page_title, original_query_words)]

\* the multipliers of the blocks, in the order the loop applies them
InOrder(blocks) ==
    blocks.authoritative \o blocks.topic \o blocks.comprehensiveness
        \o blocks.quality \o blocks.chunk_type \o blocks.exact_query \o blocks.exact_original

\* the multipliers the scoring loop applies to one result, in order
Factors(result, query, original_query, order) ==
    InOrder(FactorBlocks(result, query, original_query, order))

RECURSIVE ApplyFactors(_, _)
\* score *= f for each applied multiplier
ApplyFactors(score, fs) ==
    IF fs = << >> THEN score ELSE ApplyFactors(RatMul(score, Head(fs)), Tail(fs))

(* --------------------------- result formatting ------------------------ *)
\* chunks[idx] as Python evaluates it: a negative idx counts from the end
PyIndexError(chs, idx) == idx >= Len(chs) \/ idx < -Len(chs)
PyIndex(chs, idx) == IF idx >= 0 THEN chs[idx + 1] ELSE chs[Len(chs) + idx + 1]

\* a loop that maps every hit without the test
KeptHits_unchecked(hs, chs) == 1..Len(hs)

\* positions of the hits that pass the test idx < len(self.index_manager.chunks)
KeptHits(hs, chs) == { i \in 1..Len(hs) : hs[i].idx < Len(chs) }

\* the formatting loop raises IndexError on chunks[idx]
FormatRaises(hs, chs) == \E i \in KeptHits(hs, chs) : PyIndexError(chs, hs[i].idx)

\* a result that reports the query of the caller as the final query
FormatOne_unrefined(hs, chs, i, original_query, query) ==
    LET chunk == PyIndex(chs, hs[i].idx)
    IN  [rank |-> i,
         score |-> hs[i].score,
         page_title |-> chunk.page_title,
         section_path |-> chunk.section_path,
         url |-> chunk.url,
         content |-> chunk.content,
         chunk_type |-> chunk.chunk_type,
         section_level |-> chunk.section_level,
         original_query |-> original_query,
         final_query |-> original_query,
         full_chunk |-> chunk]

\* the dictionary appended to results, lines 80-93
FormatOne(hs, chs, i, original_query, query) ==
    LET chunk == PyIndex(chs, hs[i].idx)
    IN  [rank |-> i,
         score |-> hs[i].score,
         page_title |-> chunk.page_title,
         section_path |-> chunk.section_path,
         url |-> chunk.url,
         content |-> chunk.content,
         chunk_type |-> chunk.chunk_type,
         section_level |-> chunk.section_level,
         original_query |-> original_query,
         final_query |-> query,
         full_chunk |-> chunk]

RECURSIVE FormatFrom(_, _, _, _, _)
\* the results list built from hits i, i+1, ...
FormatFrom(hs, chs, i, original_query, query) ==
    IF i > Len(hs) THEN << >>
    ELSE (IF i \in KeptHits(hs, chs)
          THEN << FormatOne(hs, chs, i, original_query, query) >>
          ELSE << >>)
         \o FormatFrom(hs, chs, i + 1, original_query, query)

\* what the scoring loop does to each formatted result, in hit order:
\* the score before, the multipliers applied, the score after
ScoringTrace(rs, query, original_query, order) ==
    [i \in 1..Len(rs) |->
        CHOOSE entry \in
            { [page_title |-> rs[i].page_title, type |-> rs[i].chunk_type,
               base |-> rs[i].score, factors |-> InOrder(blocks),
               final |-> ApplyFactors(rs[i].score, InOrder(blocks)), blocks |-> blocks] :
              blocks \in { FactorBlocks(rs[i], query, original_query, order) } } : TRUE]

\* the assignments of the scoring loop, lines 100-199: each one sets the key
\* 'score' of a dictionary built at lines 80-93
ScoreWrites_through_chunk(rs, tr) ==
    [i \in 1..Len(rs) |->
        [object |-> "chunk", chunk |-> rs[i].full_chunk, key |-> "score", value |-> tr[i].final]]

ScoreWrites(rs, tr) ==
    [i \in 1..Len(rs) |->
        [object |-> "result", chunk |-> rs[i].full_chunk, key |-> "score", value |-> tr[i].final]]

\* d[key] = value on a dictionary
SetKey(d, key, value) ==
    [k \in DOMAIN d \cup {key} |-> IF k = key THEN value ELSE d[k]]

RECURSIVE ChunkStore(_, _)
\* the chunk dictionaries after the assignments: a result holds its chunk
\* by reference under 'full_chunk', so an assignment made on a chunk
\* shows in the list
ChunkStore(chs, writes) ==
    IF writes = << >> THEN chs
    ELSE LET w == Head(writes)
             after == [p \in 1..Len(chs) |->
                         IF w.object = "chunk" /\ chs[p] = w.chunk
                         THEN SetKey(chs[p], w.key, w.value) ELSE chs[p]]
         IN  ChunkStore(after, Tail(writes))

\* the scoring loop: every score replaced by its boosted value
Rescore(rs, tr) == [i \in 1..Len(rs) |-> [rs[i] EXCEPT !.score = tr[i].final]]

\* place x behind every element whose score is not lower than x's
InsertStable(sorted, x) ==
    LET n == Cardinality({ i \in 1..Len(sorted) : ~RatLess(sorted[i].score, x.score) })
    IN  SubSeq(sorted, 1, n) \o <<x>> \o SubSeq(sorted, n + 1, Len(sorted))

RECURSIVE SortFrom(_, _, _)
\* insertion of rs[i], rs[i+1], ... in list order keeps equal scores in order
SortFrom(rs, i, sorted) ==
    IF i > Len(rs) THEN sorted ELSE SortFrom(rs, i + 1, InsertStable(sorted, rs[i]))

\* a search that forgets to re-sort after boosting
SortByScore_unsorted(rs) == rs

\* results.sort(key=score, reverse=True): stable, highest score first
SortByScore(rs) == SortFrom(rs, 1, << >>)

\* rank = i + 1 in final order
AssignRanks(rs) == [i \in 1..Len(rs) |-> [rs[i] EXCEPT !.rank = i]]

\* lines 76-208 of DocumentRetriever.search
FinalResults(formatted, tr) == AssignRanks(SortByScore(Rescore(formatted, tr)))

(* -------------------------------- state ------------------------------- *)
(* ------------------------ index manager operations -------------------- *)
\* rows a caller of rebuild_index passes, before normalization
EmbRows == { <<3, 0>> }

\* a float32 array of shape (n, 2), and an array of one dimension
Array2D(rows) == [ndim |-> 2, rows |-> rows]
Array1D == [ndim |-> 1, rows |-> << >>]

EmbeddingArrays ==
    {Array1D} \cup UNION { { Array2D(r) : r \in [1..n -> EmbRows] } : n \in 0..MaxVectors }

\* chunk lists a caller of rebuild_index passes
RebuildCorpora == {CorpusOne, CorpusE2E}

\* rebuild_index, line 133: embeddings.shape[1] raises on a 1-d array
rebuild_raises(embeddings) == embeddings.ndim < 2

\* rebuild_index, lines 133-140: IndexFlatIP over the normalized rows
\* (components stored in hundredths)
new_index(embeddings) ==
    [d |-> 2,
     vectors |-> [i \in 1..Len(embeddings.rows) |->
                     [j \in 1..2 |-> 100 * normalize_L2(embeddings.rows[i])[j]]]]

\* Counter(chunk.get('chunk_type', 'unknown') for chunk in self.chunks)
chunk_type_counts(chs) ==
    [t \in { chs[i].chunk_type : i \in 1..Len(chs) } |->
        Cardinality({ i \in 1..Len(chs) : chs[i].chunk_type = t })]

\* IndexManager.get_stats
get_stats(idx, chs) ==
    IF ~is_loaded(idx, chs)
    THEN [status |-> "not_loaded"]
    ELSE [status |-> "loaded",
          total_vectors |-> Len(Val(idx).vectors),
          total_chunks |-> Len(Val(chs)),
          vector_dimension |-> Val(idx).d,
          chunk_types |-> chunk_type_counts(Val(chs))]

\* what a call of an IndexManager method gave back to its caller
NoCall == [op |-> "none", raised |-> FALSE, value |-> << >>]
Gave(op, value) == [op |-> op, raised |-> FALSE, value |-> value]
Threw(op, message) == [op |-> op, raised |-> TRUE, value |-> message]

\* a search that answers with no hits when nothing is loaded
manager_search_empty(idx, chs, q, k) ==
    IF ~is_loaded(idx, chs) THEN Gave("search", << >>) ELSE Gave("search", index_search(Val(idx), q, k))

\* IndexManager.search
manager_search(idx, chs, q, k) ==
    IF ~is_loaded(idx, chs)
    THEN Threw("search", "Index not loaded")
    ELSE Gave("search", index_search(Val(idx), q, k))

\* query embeddings handed to IndexManager.search directly
UnitQueries == { <<1, 0>>, <<0, 1>> }

(* -------------------------------- state ------------------------------- *)
VARIABLES
    disk,             \* index.faiss and metadata.pkl in the index directory
    index,            \* IndexManager.index
    chunks,           \* IndexManager.chunks
    query_refiner,    \* DocumentRetriever.query_refiner is not None
    pc,               \* position of the search call in progress
    original_query,   \* search: original_query
    query,            \* search: query (replaced by the refined query)
    top_k,            \* search: top_k after the default is applied
    refine_query,     \* search: refine_query
    refiner_outcome,  \* what the refiner call of this search did
    requested_k,      \* the k handed to IndexManager.search
    hits,             \* zip(scores[0], indices[0])
    trace,            \* base score, multipliers and final score per result
    results,          \* the list search returned
    error,            \* the exception search raised
    refiner_calls,    \* the refiner calls of this search: argument and outcome
    encoded,          \* the text this search handed to encode_query
    ret,              \* what the latest IndexManager call gave its caller
    rebuild_pc,       \* position of the rebuild_index call in progress
    rebuild_chunks,   \* rebuild_index: new_chunks, until it is assigned
    partner,          \* the chunk list that was installed with self.index
    used,             \* the index and the chunk list this search read
    waited,           \* time units this search has spent blocked in the refiner call
    saved,            \* the index and chunk list of the latest save_index call that returned
    cli,              \* the search command: its options and how far it has run
    session,          \* search_interactive: standard input and the state of its loop
    db                \* DatabaseManager: the clock, the stored rows, the cleanup call

vars == <<disk, index, chunks, query_refiner, pc, original_query, query, top_k,
          refine_query, refiner_outcome, requested_k, hits, trace, results, error,
          refiner_calls, encoded, ret, rebuild_pc, rebuild_chunks, partner, used,
          waited, saved, cli, session, db>>

\* the state outside the retriever and its index manager
otherVars == <<saved, cli, session, db>>

callVars == <<original_query, query, top_k, refine_query, refiner_outcome,
              requested_k, hits, trace, results, error, waited>>

rebuildVars == <<rebuild_pc, rebuild_chunks>>

NoUse == [start_ok |-> FALSE, index |-> None, partner |-> None, chunks |-> None]

\* nothing saved, no command, no interactive session, no database call
NoSave == None
NoCli == [pc |-> "none"]
NoSession == [pc |-> "none"]
NoDb == [pc |-> "none"]

\* a retriever that has just been constructed
InitRetriever ==
    /\ disk \in [index_file : IndexFiles, metadata_file : MetadataFiles]
    /\ index = None
    /\ chunks = None
    /\ query_refiner \in BOOLEAN
    /\ pc = "idle"
    /\ original_query = << >>
    /\ query = << >>
    /\ top_k = 0
    /\ refine_query = FALSE
    /\ refiner_outcome = "none"
    /\ requested_k = 0
    /\ hits = << >>
    /\ trace = << >>
    /\ results = None
    /\ error = "none"
    /\ refiner_calls = << >>
    /\ encoded = None
    /\ ret = NoCall
    /\ rebuild_pc = "idle"
    /\ rebuild_chunks = None
    /\ partner = None
    /\ used = NoUse
    /\ waited = 0

Init ==
    /\ InitRetriever
    /\ saved = NoSave
    /\ cli = NoCli
    /\ session = NoSession
    /\ db = NoDb

Idle == pc \in {"idle", "returned", "raised"}

\* the chunk list installed with self.index after a load_index call:
\* a load that fails after line 45 leaves an index without its chunks
PartnerAfterLoad(ld, idx, p) ==
    IF ld.ok THEN ld.chunks ELSE IF ld.index # idx THEN None ELSE p

(* ------------------------------- actions ------------------------------ *)
\* DocumentRetriever.load_index() from the default directory
LoadIndex ==
    /\ Idle
    /\ rebuild_pc = "idle"
    /\ index' = load_index(disk, index, chunks).index
    /\ chunks' = load_index(disk, index, chunks).chunks
    /\ partner' = PartnerAfterLoad(load_index(disk, index, chunks), index, partner)
    /\ ret' = Gave("load_index", load_index(disk, index, chunks).ok)
    /\ UNCHANGED <<disk, query_refiner, pc, refiner_calls, encoded, used>>
    /\ UNCHANGED callVars
    /\ UNCHANGED rebuildVars
    /\ UNCHANGED otherVars

\* search, lines 42-52: load on demand, default top_k, remember the query;
\* the arguments are drawn from the given sets
SearchCallWith(qs, ks, rs) ==
    /\ Idle
    /\ \E q \in qs, k \in ks, r \in rs :
        LET loaded == is_loaded(index, chunks)
            ld == load_index(disk, index, chunks)
        IN  /\ index' = IF loaded THEN index ELSE ld.index
            /\ chunks' = IF loaded THEN chunks ELSE ld.chunks
            /\ partner' = IF loaded THEN partner ELSE PartnerAfterLoad(ld, index, partner)
            /\ original_query' = q
            /\ query' = q
            /\ top_k' = IF k = NoneK THEN default_top_k ELSE k
            /\ refine_query' = r
            /\ IF loaded \/ ld.ok
               THEN pc' = "refine" /\ error' = "none"
               ELSE pc' = "raised" /\ error' = "RuntimeError"
    /\ refiner_outcome' = "none"
    /\ requested_k' = 0
    /\ hits' = << >>
    /\ trace' = << >>
    /\ results' = None
    /\ refiner_calls' = << >>
    /\ encoded' = None
    /\ ret' = NoCall
    /\ waited' = 0
    /\ used' = [NoUse EXCEPT !.start_ok = (rebuild_pc = "idle" /\ partner' = chunks')]
    /\ UNCHANGED <<disk, query_refiner>>
    /\ UNCHANGED rebuildVars

\* search called with any query, any top_k or none, refinement on or off
SearchCall ==
    /\ SearchCallWith(Queries, (1..MaxTopK) \cup {NoneK}, BOOLEAN)
    /\ UNCHANGED otherVars

\* a fallback that loses the query when the refiner raises
RefinedQuery_lost(q, outcome) == outcome.text

\* the query after the refinement step, lines 55-64
RefinedQuery(q, outcome) == IF outcome.raised THEN q ELSE outcome.text

\* search, lines 54-64: the refiner returns a string or raises
SearchRefine ==
    /\ pc = "refine"
    /\ IF refine_query /\ query_refiner
       THEN \E outcome \in {Raised} \cup { Returned(s) : s \in RefinerOutputs } :
               /\ refiner_outcome' = (IF outcome.raised THEN "raised" ELSE "returned")
               /\ refiner_calls' = Append(refiner_calls, [arg |-> query, outcome |-> outcome])
               /\ query' = RefinedQuery(query, outcome)
       ELSE /\ refiner_outcome' = "none"
            /\ refiner_calls' = refiner_calls
            /\ query' = query
    /\ pc' = "encode"
    /\ UNCHANGED <<disk, index, chunks, query_refiner, original_query, top_k,
                   refine_query, requested_k, hits, trace, results, error,
                   encoded, ret, partner, used, waited>>
    /\ UNCHANGED rebuildVars
    /\ UNCHANGED otherVars

\* search, lines 66-74: encode, normalize, IndexManager.search
SearchIndex ==
    /\ pc = "encode"
    /\ encoded' = Some(query)
    /\ IF is_loaded(index, chunks)
       THEN /\ requested_k' = RequestedK(top_k)
            /\ hits' = index_search(Val(index), normalize_L2(encode_query(query)), RequestedK(top_k))
            /\ pc' = "format"
            /\ error' = error
            /\ used' = [used EXCEPT !.index = index, !.partner = partner]
       ELSE /\ requested_k' = RequestedK(top_k)
            /\ hits' = << >>
            /\ pc' = "raised"
            /\ error' = "RuntimeError"
            /\ used' = used
    /\ UNCHANGED <<disk, index, chunks, query_refiner, original_query, query, top_k,
                   refine_query, refiner_outcome, trace, results, refiner_calls,
                   ret, partner, waited>>
    /\ UNCHANGED rebuildVars
    /\ UNCHANGED otherVars

\* search, lines 76-208: format, score, sort, rank, return
SearchFinish ==
    /\ pc = "format"
    /\ used' = [used EXCEPT !.chunks = chunks]
    /\ IF FormatRaises(hits, Val(chunks))
       THEN /\ pc' = "raised"
            /\ error' = "IndexError"
            /\ UNCHANGED <<trace, results, chunks>>
       ELSE \E order \in IterationOrders(TopicWords(query, original_query)) :
            LET formatted == FormatFrom(hits, Val(chunks), 1, original_query, query)
                tr == ScoringTrace(formatted, query, original_query, order)
            IN  /\ pc' = "returned"
                /\ trace' = tr
                /\ results' = Some(FinalResults(formatted, trace'))
                /\ chunks' = Some(ChunkStore(Val(chunks), ScoreWrites(formatted, trace')))
                /\ UNCHANGED error
    /\ UNCHANGED <<disk, index, query_refiner, original_query, query, top_k,
                   refine_query, refiner_outcome, requested_k, hits, refiner_calls,
                   encoded, ret, partner, waited>>
    /\ UNCHANGED rebuildVars
    /\ UNCHANGED otherVars

Next ==
    \/ LoadIndex
    \/ SearchCall
    \/ SearchRefine
    \/ SearchIndex
    \/ SearchFinish

Spec == Init /\ [][Next]_vars

(* --------------- the index manager called directly, and rebuilt ------- *)
\* no search and no rebuild is in progress
Quiet == Idle /\ rebuild_pc = "idle"

\* IndexManager.search called by a client of the manager
ManagerSearch ==
    /\ Quiet
    /\ \E q \in UnitQueries, k \in 1..MaxTopK :
          ret' = manager_search(index, chunks, q, k)
    /\ UNCHANGED <<disk, index, chunks, query_refiner, pc, refiner_calls, encoded,
                   partner, used>>
    /\ UNCHANGED callVars
    /\ UNCHANGED rebuildVars
    /\ UNCHANGED otherVars

\* IndexManager.get_stats
GetStats ==
    /\ Quiet
    /\ ret' = Gave("get_stats", get_stats(index, chunks))
    /\ UNCHANGED <<disk, index, chunks, query_refiner, pc, refiner_calls, encoded,
                   partner, used>>
    /\ UNCHANGED callVars
    /\ UNCHANGED rebuildVars
    /\ UNCHANGED otherVars

\* rebuild_index, lines 131-143: build the new index and assign self.index;
\* an exception leaves the manager as it was and the call returns False
RebuildIndex ==
    /\ rebuild_pc = "idle"
    /\ \E new_chunks \in RebuildCorpora, embeddings \in EmbeddingArrays :
          IF rebuild_raises(embeddings)
          THEN /\ ret' = Gave("rebuild_index", FALSE)
               /\ UNCHANGED <<index, partner, rebuild_pc, rebuild_chunks>>
          ELSE /\ index' = Some(new_index(embeddings))
               /\ partner' = Some(new_chunks)
               /\ rebuild_pc' = "swap"
               /\ rebuild_chunks' = Some(new_chunks)
               /\ ret' = ret
    /\ UNCHANGED <<disk, chunks, query_refiner, pc, refiner_calls, encoded, used>>
    /\ UNCHANGED callVars
    /\ UNCHANGED otherVars

\* rebuild_index, lines 144-148: assign self.chunks and return True
RebuildChunks ==
    /\ rebuild_pc = "swap"
    /\ chunks' = rebuild_chunks
    /\ rebuild_pc' = "idle"
    /\ rebuild_chunks' = None
    /\ ret' = Gave("rebuild_index", TRUE)
    /\ UNCHANGED <<disk, index, query_refiner, pc, refiner_calls, encoded, partner, used>>
    /\ UNCHANGED callVars
    /\ UNCHANGED otherVars

\* index directories of the manager-level model
IndexDisks ==
    [index_file : {Missing, Corrupt, File([d |-> 2, vectors |-> << <<95, 70>>, <<87, 90>> >>])},
     metadata_file : {Missing, Corrupt, File(CorpusE2E), File(CorpusTest)}]

InitIndex ==
    /\ Init
    /\ disk \in IndexDisks
    /\ query_refiner = FALSE

NextIndex ==
    \/ LoadIndex
    \/ ManagerSearch
    \/ GetStats
    \/ RebuildIndex
    \/ RebuildChunks

\* the index manager used directly by one client
IndexSpec == InitIndex /\ [][NextIndex]_vars

\* search called without refinement
SearchCallPlain ==
    /\ SearchCallWith(Queries, {MaxTopK - 1}, {FALSE})
    /\ UNCHANGED otherVars

NextRebuild ==
    \/ LoadIndex
    \/ RebuildIndex
    \/ RebuildChunks
    \/ SearchCallPlain
    \/ SearchRefine
    \/ SearchIndex
    \/ SearchFinish

\* rebuild_index running in one thread while another thread searches
RebuildSpec == InitIndex /\ [][NextRebuild]_vars

(* ------------------- a refiner call that never completes -------------- *)
\* the timeout of the refiner call, in time units
RefinerTimeout == 2

\* search, line 57: model.generate inside refine_query (refiner.py:113-123)
\* has not returned and one more time unit passes; search waits in the
\* call, which is made without a timeout
RefinerBlocks ==
    /\ pc \in {"refine", "refining"}
    /\ refine_query /\ query_refiner
    /\ waited <= RefinerTimeout
    /\ pc' = "refining"
    /\ waited' = waited + 1
    /\ refiner_outcome' = "pending"
    /\ UNCHANGED <<disk, index, chunks, query_refiner, original_query, query, top_k,
                   refine_query, requested_k, hits, trace, results, error,
                   refiner_calls, encoded, ret, partner, used>>
    /\ UNCHANGED rebuildVars
    /\ UNCHANGED otherVars

InitHang ==
    /\ Init
    /\ disk \in IndexDisks
    /\ query_refiner = TRUE

NextHang ==
    \/ LoadIndex
    \/ SearchCall
    \/ RefinerBlocks
    \/ SearchRefine
    \/ SearchIndex
    \/ SearchFinish

\* searches with a refiner whose call may never complete
HangSpec == InitHang /\ [][NextHang]_vars


(* ------------------------- saving and reloading ----------------------- *)
\* where a save_index call can fail: nowhere, in mkdir, in
\* faiss.write_index, or in pickle.dump
SaveFailures == {"none", "mkdir", "write_index", "dump"}

\* a save that writes index.faiss and leaves metadata.pkl as it is
save_index_index_only(dsk, idx, chs, failure) ==
    [raised |-> FALSE, disk |-> [dsk EXCEPT !.index_file = File(idx)]]

\* IndexManager.save_index into the default directory, lines 58-84: the
\* directory after the call and whether the call raised; a write that
\* fails leaves an unreadable file
save_index(dsk, idx, chs, failure) ==
    CASE failure = "mkdir" -> [raised |-> TRUE, disk |-> dsk]
      [] failure = "write_index" ->
            [raised |-> TRUE, disk |-> [dsk EXCEPT !.index_file = Corrupt]]
      [] failure = "dump" ->
            [raised |-> TRUE,
             disk |-> [dsk EXCEPT !.index_file = File(idx), !.metadata_file = Corrupt]]
      [] OTHER ->
            [raised |-> FALSE,
             disk |-> [dsk EXCEPT !.index_file = File(idx), !.metadata_file = File(chs)]]

\* indexes and chunk lists handed to save_index
SavedIndexes ==
    { [d |-> 2, vectors |-> << <<95, 70>> >>],
      [d |-> 3, vectors |-> << <<95, 70, 0>>, <<87, 90, 10>>, <<0, -20, 5>> >>] }

SavedCorpora == {CorpusOne, CorpusTest}

\* save_index(index, chunks) called by the owner of the index directory
SaveIndex ==
    /\ Quiet
    /\ \E idx \in SavedIndexes, chs \in SavedCorpora, failure \in SaveFailures :
          LET s == save_index(disk, idx, chs, failure)
          IN  /\ disk' = s.disk
              /\ ret' = IF s.raised THEN Threw("save_index", failure)
                        ELSE Gave("save_index", <<"index.faiss", "metadata.pkl">>)
              /\ saved' = IF s.raised THEN None
                          ELSE Some([index |-> idx, chunks |-> chs, fresh |-> FALSE])
    /\ UNCHANGED <<index, chunks, query_refiner, pc, refiner_calls, encoded, partner, used>>
    /\ UNCHANGED callVars
    /\ UNCHANGED rebuildVars
    /\ UNCHANGED <<cli, session, db>>

\* IndexManager(config), lines 19-23: a new manager replaces the old one
NewManager ==
    /\ Quiet
    /\ index' = None
    /\ chunks' = None
    /\ partner' = None
    /\ ret' = NoCall
    /\ saved' = IF saved = None THEN saved ELSE Some([Val(saved) EXCEPT !.fresh = TRUE])
    /\ UNCHANGED <<disk, query_refiner, pc, refiner_calls, encoded, used>>
    /\ UNCHANGED callVars
    /\ UNCHANGED rebuildVars
    /\ UNCHANGED <<cli, session, db>>

NextSave ==
    \/ SaveIndex
    \/ NewManager
    \/ LoadIndex
    \/ GetStats

\* an index directory that is saved to and loaded from
SaveSpec == InitIndex /\ [][NextSave]_vars

(* --------------------------- the search command ----------------------- *)
\* the options of the command: --refine, --no-refine, whether
\* --refiner-model is given, --top-k (NoneK when absent), and
\* config.enable_query_refinement as the environment sets it
CliOptions ==
    [refine : BOOLEAN, no_refine : BOOLEAN, refiner_model : BOOLEAN,
     top_k : {NoneK, MaxTopK}, enable_query_refinement : BOOLEAN]

\* search_cmd, lines 68-79: the refinement setting the command decides on
use_refinement(options) ==
    LET refine == IF options.refiner_model /\ ~options.no_refine
                  THEN TRUE ELSE options.refine
    IN  IF refine \/ options.refiner_model THEN TRUE
        ELSE IF options.no_refine THEN FALSE
        ELSE options.enable_query_refinement

\* search_cmd, lines 63-94: settle the options, construct the retriever
\* (which loads the refiner when refinement is enabled, and goes on
\* without it when the refiner cannot be loaded) and load the index
SearchCmdSetup ==
    /\ cli.pc = "start"
    /\ \E refiner_loads \in BOOLEAN :
          query_refiner' = (use_refinement(cli.options) /\ refiner_loads)
    /\ LET ld == load_index(disk, None, None)
       IN  /\ index' = ld.index
           /\ chunks' = ld.chunks
           /\ partner' = PartnerAfterLoad(ld, None, None)
           /\ ret' = Gave("load_index", ld.ok)
           /\ cli' = [cli EXCEPT !.pc = IF ld.ok THEN "ready" ELSE "failed",
                                 !.use_refinement = use_refinement(cli.options)]
    /\ UNCHANGED <<disk, pc, refiner_calls, encoded, used>>
    /\ UNCHANGED callVars
    /\ UNCHANGED rebuildVars
    /\ UNCHANGED <<saved, session, db>>

\* search_cmd, lines 99-118: the single query handed to retriever.search
SearchCmdQuery ==
    /\ cli.pc = "ready"
    /\ SearchCallWith(Queries, {cli.options.top_k}, {cli.use_refinement})
    /\ cli' = [cli EXCEPT !.pc = "searching"]
    /\ UNCHANGED <<saved, session, db>>

\* search_cmd, lines 120-143: the search is logged and its results are
\* printed, or its exception becomes a ClickException
SearchCmdDone ==
    /\ cli.pc = "searching"
    /\ pc \in {"returned", "raised"}
    /\ cli' = [cli EXCEPT !.pc = IF pc = "returned" THEN "done" ELSE "failed"]
    /\ UNCHANGED <<disk, index, chunks, query_refiner, pc, refiner_calls, encoded,
                   ret, partner, used>>
    /\ UNCHANGED callVars
    /\ UNCHANGED rebuildVars
    /\ UNCHANGED <<saved, session, db>>

InitCli ==
    /\ InitRetriever
    /\ disk \in IndexDisks
    /\ query_refiner = FALSE
    /\ cli \in [pc : {"start"}, options : CliOptions, use_refinement : {FALSE}]
    /\ saved = NoSave
    /\ session = NoSession
    /\ db = NoDb

NextCli ==
    \/ SearchCmdSetup
    \/ SearchCmdQuery
    \/ SearchRefine
    \/ SearchIndex
    \/ SearchFinish
    \/ SearchCmdDone

\* one run of the search command with a query
CliSpec == InitCli /\ [][NextCli]_vars

(* --------------------------- interactive search ----------------------- *)
\* the command words of search_interactive and lines typed at its prompt
w_quit == <<"q", "u", "i", "t">>
w_exit == <<"e", "x", "i", "t">>
w_q == <<"q">>
w_help == <<"h", "e", "l", "p">>
w_stats == <<"s", "t", "a", "t", "s">>
w_toggle == <<"t", "o", "g", "g", "l", "e">>
w_refine_sp == <<"r", "e", "f", "i", "n", "e", " ">>
in_Exit == <<" ", "E", "x", "i", "t", " ">>
in_refine_wifi == <<"r", "e", "f", "i", "n", "e", " ", "w", "i", "f", "i">>
in_blank == <<" ", " ">>

\* what standard input delivers to one input() call: a line, or Ctrl-C
Line(text) == [kind |-> "line", text |-> text]
Interrupt == [kind |-> "interrupt", text |-> << >>]

InputEvents ==
    { Line(t) : t \in {w_quit, in_Exit, w_q, w_help, w_stats, w_toggle,
                       in_refine_wifi, in_blank, Q_wifi} } \cup {Interrupt}

\* longest standard input, in events, before its end
MaxInputLines == 2

\* input() calls made after the end of standard input that are followed
MaxEofReads == 2

StdinStreams == UNION { [1..n -> InputEvents] : n \in 0..MaxInputLines }

\* what the loop does with a line, lines 231-262
Dispatch(text, refiner) ==
    LET user_input == Strip(text)
        command == Lower(user_input)
    IN  IF command \in {w_quit, w_exit, w_q} THEN "break"
        ELSE IF command = w_help THEN "help"
        ELSE IF command = w_stats THEN "stats"
        ELSE IF command = w_toggle THEN "toggle"
        ELSE IF StartsWith(command, w_refine_sp) /\ refiner THEN "refine"
        ELSE IF user_input = << >> THEN "continue"
        ELSE "search"

\* lines 278-279: EOFError is an Exception, its message is printed and the
\* loop goes on to the next input() call
AfterEof(s) == [s EXCEPT !.last = "eof", !.eof_reads = @ + 1]

\* one pass of the loop in which input() raises EOFError
InteractiveEof ==
    /\ session.pc = "prompt"
    /\ session.stdin = << >>
    /\ session.eof_reads < MaxEofReads
    /\ session' = AfterEof(session)
    /\ UNCHANGED <<disk, index, chunks, query_refiner, pc, refiner_calls, encoded,
                   ret, partner, used>>
    /\ UNCHANGED callVars
    /\ UNCHANGED rebuildVars
    /\ UNCHANGED <<saved, cli, db>>

\* lines 275-277: KeyboardInterrupt at the prompt ends the loop
InteractiveInterrupt ==
    /\ session.pc = "prompt"
    /\ session.stdin # << >>
    /\ Head(session.stdin).kind = "interrupt"
    /\ session' = [session EXCEPT !.pc = "exited", !.last = "interrupt",
                                  !.stdin = Tail(@)]
    /\ UNCHANGED <<disk, index, chunks, query_refiner, pc, refiner_calls, encoded,
                   ret, partner, used>>
    /\ UNCHANGED callVars
    /\ UNCHANGED rebuildVars
    /\ UNCHANGED <<saved, cli, db>>

\* one pass of the loop for a line that is not searched for, lines 231-262
InteractiveCommand ==
    /\ session.pc = "prompt"
    /\ session.stdin # << >>
    /\ Head(session.stdin).kind = "line"
    /\ LET what == Dispatch(Head(session.stdin).text, query_refiner)
       IN  /\ what # "search"
           /\ session' = [session EXCEPT
                            !.pc = IF what = "break" THEN "exited" ELSE "prompt",
                            !.last = what,
                            !.stdin = Tail(@),
                            !.show_refinement = IF what = "toggle" THEN ~@ ELSE @]
           /\ ret' = IF what = "stats" THEN Gave("get_stats", get_stats(index, chunks))
                     ELSE ret
    /\ UNCHANGED <<disk, index, chunks, query_refiner, pc, refiner_calls, encoded,
                   partner, used>>
    /\ UNCHANGED callVars
    /\ UNCHANGED rebuildVars
    /\ UNCHANGED <<saved, cli, db>>

\* lines 264-267: the stripped line is handed to self.search
InteractiveSearch ==
    /\ session.pc = "prompt"
    /\ session.stdin # << >>
    /\ Head(session.stdin).kind = "line"
    /\ Dispatch(Head(session.stdin).text, query_refiner) = "search"
    /\ SearchCallWith({Strip(Head(session.stdin).text)}, {session.top_k}, {query_refiner})
    /\ session' = [session EXCEPT !.pc = "search", !.last = "search", !.stdin = Tail(@)]
    /\ UNCHANGED <<saved, cli, db>>

\* lines 269-272 and 278-279: the results are printed, or the exception
\* of the search is printed, and the loop goes on
InteractiveResults ==
    /\ session.pc = "search"
    /\ pc \in {"returned", "raised"}
    /\ session' = [session EXCEPT !.pc = "prompt",
                                  !.last = IF pc = "raised" THEN "error" ELSE "results"]
    /\ UNCHANGED <<disk, index, chunks, query_refiner, pc, refiner_calls, encoded,
                   ret, partner, used>>
    /\ UNCHANGED callVars
    /\ UNCHANGED rebuildVars
    /\ UNCHANGED <<saved, cli, db>>

\* index directories of the interactive model
InteractiveDisks ==
    [index_file : {Missing, File([d |-> 2, vectors |-> << <<95, 70>>, <<87, 90>> >>])},
     metadata_file : {Missing, File(CorpusE2E)}]

InitInteractive ==
    /\ InitRetriever
    /\ disk \in InteractiveDisks
    /\ session \in [pc : {"prompt"}, stdin : StdinStreams, last : {"none"},
                    show_refinement : {TRUE}, eof_reads : {0}, top_k : {default_top_k}]
    /\ saved = NoSave
    /\ cli = NoCli
    /\ db = NoDb

NextInteractive ==
    \/ InteractiveEof
    \/ InteractiveInterrupt
    \/ InteractiveCommand
    \/ InteractiveSearch
    \/ SearchRefine
    \/ SearchIndex
    \/ SearchFinish
    \/ InteractiveResults

\* search_interactive reading standard input until it ends
InteractiveSpec == InitInteractive /\ [][NextInteractive]_vars

(* ------------------------- database maintenance ----------------------- *)
\* days of the months of a year that is not a leap year
DaysInMonth(month) ==
    IF month = 2 THEN 28 ELSE IF month \in {4, 6, 9, 11} THEN 30 ELSE 31

Dates == { date \in [month : 1..12, day : 1..31] : date.day <= DaysInMonth(date.month) }

RECURSIVE DaysBefore(_)
\* days of the year before the first of the month
DaysBefore(month) ==
    IF month = 1 THEN 0 ELSE DaysBefore(month - 1) + DaysInMonth(month - 1)

\* the day of the year of a date; timestamps are counted in these days,
\* those of the year before being zero or negative
Ordinal(date) == DaysBefore(date.month) + date.day

\* datetime.replace(day=day): ValueError unless the month has that day
ReplaceDayRaises(date, day) == day < 1 \/ day > DaysInMonth(date.month)
ReplaceDay(date, day) == [date EXCEPT !.day = day]

\* cleanup_old_data, line 260:
\* datetime.now().replace(day=datetime.now().day - days_old)
cutoff_date(today, days_old) ==
    IF ReplaceDayRaises(today, today.day - days_old) THEN None
    ELSE Some(Ordinal(ReplaceDay(today, today.day - days_old)))

\* DELETE FROM ... WHERE timestamp < ?
DeleteBefore(rows, cutoff) == { r \in rows : ~(r < cutoff) }

\* the arguments cleanup_old_data is called with: the default and a week
DaysOld == {30, 7}

\* ages in days of the rows of search_history and of scraping_sessions
SearchAges == {31, 29, 8, 6}
SessionAges == {40, 2}

\* DatabaseManager.cleanup_old_data(days_old), lines 255-278: the ValueError
\* of line 260 leaves the with block before any DELETE and reaches the caller
CleanupOldData ==
    /\ db.pc = "idle"
    /\ \E days_old \in DaysOld :
          LET cutoff == cutoff_date(db.today, days_old)
          IN  db' = IF cutoff = None
                    THEN [db EXCEPT !.pc = "raised", !.days_old = days_old]
                    ELSE [db EXCEPT !.pc = "done", !.days_old = days_old,
                                    !.cutoff = cutoff,
                                    !.search_history = DeleteBefore(@, Val(cutoff)),
                                    !.scraping_sessions = DeleteBefore(@, Val(cutoff))]
    /\ UNCHANGED <<disk, index, chunks, query_refiner, pc, refiner_calls, encoded,
                   ret, partner, used>>
    /\ UNCHANGED callVars
    /\ UNCHANGED rebuildVars
    /\ UNCHANGED <<saved, cli, session>>

InitDb ==
    /\ InitRetriever
    /\ disk = [index_file |-> Missing, metadata_file |-> Missing]
    /\ query_refiner = FALSE
    /\ \E today \in Dates, searches \in SUBSET SearchAges, sessions \in SUBSET SessionAges :
          LET history == { Ordinal(today) - age : age \in searches }
              completed == { Ordinal(today) - age : age \in sessions }
          IN  db = [pc |-> "idle", today |-> today, days_old |-> 0, cutoff |-> None,
                    stored_searches |-> history, stored_sessions |-> completed,
                    search_history |-> history, scraping_sessions |-> completed]
    /\ saved = NoSave
    /\ cli = NoCli
    /\ session = NoSession

NextDb == CleanupOldData

\* one cleanup_old_data call on some day of the year
DbSpec == InitDb /\ [][NextDb]_vars


(* ------------------------------- claims ------------------------------- *)
SearchReturned == pc = "returned"
Results == Val(results)

\* every hit of the call names a position of the chunk array
HitsInRange == \A i \in 1..Len(hits) : hits[i].idx >= 0 /\ hits[i].idx < Len(Val(chunks))

HitPositions == { hits[i].idx : i \in 1..Len(hits) }

\* C1: for every query and every top_k >= 1, search on a loaded index
\* returns a list of at most top_k results.
C1_AtMostTopK == SearchReturned => Len(Results) <= top_k

\* a search whose hits all name chunks and fill the list up to top_k
C1_Witness == SearchReturned /\ HitsInRange /\ top_k >= 2 /\ Len(Results) = top_k

\* C2: the result at position i has rank i, and scores never increase
\* along the returned list.
C2_RanksAndOrder ==
    SearchReturned =>
        /\ \A i \in 1..Len(Results) : Results[i].rank = i
        /\ \A i, j \in 1..Len(Results) :
              i < j => ~RatLess(Results[i].score, Results[j].score)

\* a search whose boosted scores were out of order before the re-sort
C2_Witness ==
    /\ SearchReturned
    /\ HitsInRange
    /\ Len(Results) >= 2
    /\ \E i \in 1..(Len(trace) - 1) : RatLess(trace[i].final, trace[i + 1].final)

\* DocumentRetriever.search(q, k, refine_query=False) on a loaded index
search_unrefined(idx, chs, q, k) ==
    LET hs == index_search(idx, normalize_L2(encode_query(q)), RequestedK(k))
        formatted == FormatFrom(hs, chs, 1, q, q)
    IN  FinalResults(formatted, ScoringTrace(formatted, q, q, SeqOf(TopicWords(q, q))))

\* C3: when the refiner raises, search(query, refine_query=True) does not
\* raise because of it and returns exactly what search(query,
\* refine_query=False) returns, with final_query = original_query on every
\* result.
C3_RefinerFailureFallsBack ==
    refiner_outcome = "raised" =>
        /\ pc \in {"encode", "format"} => query = original_query /\ error = "none"
        /\ pc = "raised" => error = "IndexError" /\ FormatRaises(hits, Val(chunks))
        /\ SearchReturned =>
              /\ Results = search_unrefined(Val(index), Val(chunks), original_query, top_k)
              /\ \A i \in 1..Len(Results) :
                    Results[i].final_query = Results[i].original_query

\* a refined search whose refiner raised and that returned two results
C3_Witness ==
    /\ SearchReturned
    /\ HitsInRange
    /\ refiner_outcome = "raised"
    /\ refine_query
    /\ Len(Results) >= 2

\* C4: on the two-chunk corpus NetworkManager / Wireless Configuration,
\* search("wireless network setup", top_k=2) without refinement returns both
\* chunks with the chunk of higher raw similarity ranked first.
C4_HigherSimilarityFirst ==
    ( /\ SearchReturned
      /\ chunks = Some(CorpusE2E)
      /\ original_query = Q_wireless
      /\ ~refine_query
      /\ top_k = 2
      /\ HitPositions = {0, 1}
      /\ RatLess(hits[2].score, hits[1].score) )
    => /\ Len(Results) = 2
       /\ Results[1].full_chunk = CorpusE2E[hits[1].idx + 1]
       /\ Results[2].full_chunk = CorpusE2E[hits[2].idx + 1]

\* C5: with refinement off, search returns one result per index hit, in
\* the order of the hits, each scored with the raw similarity of its hit.
C5_RawScoresInHitOrder ==
    (SearchReturned /\ ~refine_query /\ HitsInRange) =>
        /\ Len(Results) = Len(hits)
        /\ \A i \in 1..Len(Results) :
              /\ Results[i].rank = i
              /\ Results[i].score = hits[i].score
              /\ Results[i].full_chunk = Val(chunks)[hits[i].idx + 1]

\* C6: every multiplier the scoring policy applies is strictly positive,
\* so a final score is zero exactly when its base score is zero and has the
\* sign of the base score otherwise.
C6_PositiveMultipliers ==
    SearchReturned =>
        /\ Len(trace) = Len(Results)
        /\ \A j \in 1..Len(Results) : \E i \in 1..Len(trace) : Results[j].score = trace[i].final
        /\ \A i \in 1..Len(trace) :
              /\ \A n \in 1..Len(trace[i].factors) :
                    trace[i].factors[n][1] > 0 /\ trace[i].factors[n][2] > 0
              /\ RatSign(trace[i].final) = RatSign(trace[i].base)

\* a negative similarity that went through the small-chunk penalty
C6_Witness ==
    /\ SearchReturned
    /\ \E i \in 1..Len(trace) :
          /\ trace[i].base[1] < 0
          /\ \E n \in 1..Len(trace[i].factors) : trace[i].factors[n] = SmallOverviewFactor
          /\ trace[i].final[1] < 0

\* normalize_title of the Deduplicator: lower case, punctuation and
\* whitespace removed (so that wi-fi and wi_fi fold to wifi)
normalize_title(title) ==
    SelectSeq(Lower(title), LAMBDA c : c \notin {"-", "_", " ", "/", ".", ","})

\* the deduplication key of a result: content and normalized title
dedup_key(r) == <<r.content, normalize_title(r.page_title)>>

\* the alias list of a result, if the result carries one
aliases(r) ==
    IF "aliases" \in DOMAIN r THEN { r.aliases[n] : n \in 1..Len(r.aliases) } ELSE {}

\* C7: two candidates with identical content whose titles normalize to the
\* same key (Wi-Fi and wifi) come back as a single result whose alias list
\* holds both titles.
C7_AliasesMerged ==
    ( /\ SearchReturned
      /\ chunks = Some(CorpusWifi)
      /\ HitsInRange
      /\ {0, 1} \subseteq HitPositions )
    => \E i \in 1..Len(Results) :
          /\ dedup_key(Results[i]) = <<c_WiFi, s_wifi>>
          /\ {t_WiFi, t_wifi} \subseteq aliases(Results[i])
          /\ \A j \in 1..Len(Results) :
                dedup_key(Results[j]) = <<c_WiFi, s_wifi>> => j = i

\* C8: the returned list is no longer than the list of candidates, and of
\* every group of candidates sharing a deduplication key exactly one
\* survives, carrying the highest score of the group.
C8_OneSurvivorPerKey ==
    (SearchReturned /\ HitsInRange) =>
        /\ Len(Results) <= Len(hits)
        /\ \A n \in 1..Len(hits) :
              LET key == dedup_key(Val(chunks)[hits[n].idx + 1])
                  group == { m \in 1..Len(hits) : dedup_key(Val(chunks)[hits[m].idx + 1]) = key }
                  survivors == { i \in 1..Len(Results) : dedup_key(Results[i]) = key }
              IN  /\ Cardinality(survivors) = 1
                  /\ \A i \in survivors :
                        /\ \E m \in group : Results[i].score = trace[m].final
                        /\ \A m \in group : ~RatLess(Results[i].score, trace[m].final)

\* the deduplication stage is part of search (section 4.4, step 7)
deduplication_enabled == TRUE

\* the over-fetch factor of section 4.4, step 4
OverFetchFactor == 3

\* C10: search requests top_k * 3 neighbours from the vector index when
\* deduplication is enabled and exactly top_k when it is disabled.
C10_OverFetch ==
    pc \in {"format", "returned"} =>
        requested_k = (IF deduplication_enabled THEN top_k * OverFetchFactor ELSE top_k)

(* ---------------------- claims on the index manager ------------------- *)
\* C11: after any sequence of load_index and rebuild_index calls, whenever
\* the manager is loaded the index holds as many vectors as there are
\* chunks: a load or rebuild of a mismatched pair fails and installs nothing.
C11_VectorsMatchChunks ==
    (rebuild_pc = "idle" /\ is_loaded(index, chunks)) =>
        Len(Val(index).vectors) = Len(Val(chunks))

\* C12: a search in flight while rebuild_index runs reads a consistent
\* snapshot: the chunk list it maps positions with is the one installed
\* together with the index it searched, both old or both new.
C12_ConsistentSnapshot ==
    (SearchReturned /\ used.start_ok) => used.chunks = used.partner

(* ------------------------- claims on one search ----------------------- *)
\* the query the search embedded: the refiner output if a refiner call
\* returned one, the query of the caller otherwise
FinalQuery ==
    IF refiner_calls # << >> /\ ~refiner_calls[1].outcome.raised
    THEN refiner_calls[1].outcome.text
    ELSE original_query

\* the list a search returns as a function of the index, the chunk list,
\* the query of the caller, the embedded query and top_k, with the word set
\* iterated in one fixed order
search_result(idx, chs, oq, fq, k) ==
    LET hs == index_search(idx, normalize_L2(encode_query(fq)), RequestedK(k))
        formatted == FormatFrom(hs, chs, 1, oq, fq)
    IN  FinalResults(formatted, ScoringTrace(formatted, fq, oq, SeqOf(TopicWords(fq, oq))))

\* C13: search is deterministic: for a fixed index, chunk list, query,
\* top_k and refiner output the returned list (chunks, scores, order, ranks)
\* is the same on every run, whatever order the word set is iterated in.
C13_Deterministic ==
    SearchReturned =>
        Results = search_result(Val(index), Val(chunks), original_query, FinalQuery, top_k)

\* a returned search of a three-word query with two results, one of them
\* boosted by the topic loop
C13_Witness ==
    /\ SearchReturned
    /\ HitsInRange
    /\ Len(Results) = 2
    /\ Cardinality(TopicWords(query, original_query)) >= 3
    /\ \E i \in 1..Len(trace) : \E n \in 1..Len(trace[i].factors) : trace[i].factors[n] = <<6, 5>>

\* a hit names a position at or beyond the end of the chunk list
HitBeyond == \E i \in 1..Len(hits) : hits[i].idx >= Len(Val(chunks))

\* SearchFinish has run for the search in progress
Formatted == pc \in {"returned", "raised"} /\ used.chunks # None

\* C14: hit positions at or beyond the length of the chunk list are dropped
\* without an error: the search does not raise because of them, and the hits
\* in range are still scored, sorted by score and ranked 1..N.
C14_BeyondCorpusDropped ==
    (Formatted /\ HitBeyond) =>
        /\ pc = "raised" => error = "IndexError" /\ \E i \in 1..Len(hits) : hits[i].idx < 0
        /\ SearchReturned =>
              /\ Len(Results) = Cardinality({ i \in 1..Len(hits) : hits[i].idx < Len(Val(chunks)) })
              /\ Len(trace) = Len(Results)
              /\ \A i \in 1..Len(Results) :
                    /\ Results[i].rank = i
                    /\ i > 1 => ~RatLess(Results[i - 1].score, Results[i].score)
                    /\ \E m \in 1..Len(trace) : Results[i].score = trace[m].final
              /\ \A i \in 1..Len(hits) :
                    (hits[i].idx >= 0 /\ hits[i].idx < Len(Val(chunks))) =>
                        \E n \in 1..Len(Results) :
                            Results[n].full_chunk = Val(chunks)[hits[i].idx + 1]

\* a returned search with one hit in range, kept, and one beyond the end of
\* a one-chunk list, dropped
C14_Witness ==
    /\ SearchReturned
    /\ HitBeyond
    /\ Len(hits) = 2
    /\ Len(Results) = 1
    /\ Results[1].rank = 1

\* C15: search on a retriever that is not loaded first attempts load_index()
\* from the default location; if the load succeeds the search proceeds, and
\* if it fails search raises RuntimeError without encoding the query and
\* without calling the index.
C15_LoadOnDemand ==
    /\ (pc = "raised" /\ error = "RuntimeError") =>
          /\ index = None \/ chunks = None
          /\ ~load_index(disk, index, chunks).ok
          /\ index = load_index(disk, index, chunks).index
          /\ encoded = None
          /\ requested_k = 0
          /\ hits = << >>
          /\ results = None
    /\ pc \in {"refine", "encode", "format", "returned"} =>
          /\ index # None /\ chunks # None
          /\ error = "none"

\* a search on an unloaded retriever whose load failed after the index file
\* was read: it raised, with nothing encoded and no index call
C15_Witness ==
    /\ pc = "raised"
    /\ error = "RuntimeError"
    /\ original_query # << >>
    /\ index # None
    /\ chunks = None

\* C16: IndexManager.search called while the index or the chunk metadata is
\* not loaded raises RuntimeError('Index not loaded') and returns no scores
\* or indices; get_stats in the same state returns status 'not_loaded'.
C16_NotLoadedRaises ==
    /\ ret.op = "search" =>
          IF index = None \/ chunks = None
          THEN ret.raised /\ ret.value = "Index not loaded"
          ELSE ~ret.raised
    /\ ret.op = "get_stats" =>
          /\ ~ret.raised
          /\ (index = None \/ chunks = None) => ret.value = [status |-> "not_loaded"]
          /\ (index # None /\ chunks # None) => ret.value.status = "loaded"

\* IndexManager.search raised on a manager that holds an index but no chunks
C16_Witness ==
    /\ ret.op = "search"
    /\ ret.raised
    /\ index # None
    /\ chunks = None

\* C17: load_index returns False and does not raise when the index file or
\* the metadata file is missing: only the index file missing, only the
\* metadata file missing, both missing.
C17_MissingFilesReturnFalse ==
    (ret.op = "load_index"
        /\ (disk.index_file.state = "missing" \/ disk.metadata_file.state = "missing")) =>
        /\ ~ret.raised
        /\ ret.value = FALSE

\* load_index returned False with the index file present and only the
\* metadata file missing
C17_Witness ==
    /\ ret.op = "load_index"
    /\ ret.value = FALSE
    /\ disk.index_file.state = "ok"
    /\ disk.metadata_file.state = "missing"

(* ---------------------- claims on query refinement -------------------- *)
\* C18: when refine_query is true and a refiner is available, search calls
\* the refiner exactly once, with the query of the caller, embeds what the
\* refiner returned, and every result carries original_query = the query of
\* the caller and final_query = the refiner output; when refine_query is
\* false or no refiner is available the refiner is never called and
\* final_query = original_query.
C18_RefinerCalledOnce ==
    pc \in {"encode", "format", "returned"} =>
        IF refine_query /\ query_refiner
        THEN /\ Len(refiner_calls) = 1
             /\ refiner_calls[1].arg = original_query
             /\ ~refiner_calls[1].outcome.raised =>
                   /\ encoded # None => Val(encoded) = refiner_calls[1].outcome.text
                   /\ SearchReturned =>
                         \A i \in 1..Len(Results) :
                            /\ Results[i].original_query = original_query
                            /\ Results[i].final_query = refiner_calls[1].outcome.text
        ELSE /\ refiner_calls = << >>
             /\ encoded # None => Val(encoded) = original_query
             /\ SearchReturned =>
                   \A i \in 1..Len(Results) :
                      /\ Results[i].original_query = original_query
                      /\ Results[i].final_query = original_query

\* a refined search that returned two results carrying the refiner output
C18_Witness ==
    /\ SearchReturned
    /\ refine_query /\ query_refiner
    /\ HitsInRange
    /\ Len(Results) = 2
    /\ Len(refiner_calls) = 1
    /\ refiner_calls[1].outcome = Returned(R_refined)
    /\ Results[1].final_query = R_refined
    /\ Results[1].original_query = Q_wireless

\* the refiner call of this search returned an empty or whitespace-only string
MalformedOutput ==
    /\ refiner_calls # << >>
    /\ ~refiner_calls[1].outcome.raised
    /\ Strip(refiner_calls[1].outcome.text) = << >>

\* C19: a refinement that fails by malformed output (an empty or
\* whitespace-only string) is recovered locally: search embeds the original
\* query and every result carries final_query = original_query.
C19_MalformedOutputFallsBack ==
    (SearchReturned /\ MalformedOutput) =>
        /\ Val(encoded) = original_query
        /\ \A i \in 1..Len(Results) : Results[i].final_query = original_query

\* C20: search(query, refine_query=True) returns even when the refiner call
\* never completes: the call is bounded by a timeout, so a search is never
\* still waiting in the refiner call after the timeout has passed (it has
\* gone on with the original query).
C20_RefinerCallBounded ==
    pc = "refining" => waited <= RefinerTimeout


(* ------------------- search leaves the index alone -------------------- *)
\* C21: a step of a search call made on a loaded index leaves the index,
\* the chunk list and every key of every chunk as they were
C21_SearchLeavesIndexUnchanged ==
    [][(is_loaded(index, chunks) /\ ~(Idle /\ Idle'))
          => (index' = index /\ chunks' = chunks /\ disk' = disk)]_vars

\* a search on a loaded index whose scoring loop changed a score
C21_Witness ==
    /\ pc = "returned"
    /\ is_loaded(index, chunks)
    /\ chunks = disk.metadata_file.data
    /\ \E i \in 1..Len(trace) : trace[i].final # trace[i].base

(* --------------------- the multipliers, block by block ---------------- *)
\* the multiplier a block applied to a result: 1 when it applied none
Multiplier(fs) == IF fs = << >> THEN <<1, 1>> ELSE fs[1]

RatOne == <<1, 1>>

\* C23: for an overview-seeking original query the chunk-type multiplier
\* orders large > medium > 1 > small > 0; otherwise small chunks get a
\* multiplier above 1 and medium and large chunks exactly 1
C23_GranularityPreference ==
    pc = "returned" =>
        \A i \in 1..Len(trace) :
            LET m == Multiplier(trace[i].blocks.chunk_type)
            IN  /\ Len(trace[i].blocks.chunk_type) <= 1
                /\ IF user_wants_overview(original_query)
                   THEN /\ trace[i].type \in {"large", "medium"} => RatLess(RatOne, m)
                        /\ trace[i].type = "small" => RatLess(m, RatOne) /\ RatLess(<<0, 1>>, m)
                        /\ \A j \in 1..Len(trace) :
                              LET n == Multiplier(trace[j].blocks.chunk_type)
                              IN  /\ (trace[i].type = "large" /\ trace[j].type = "medium")
                                        => RatLess(n, m)
                                  /\ trace[i].type = trace[j].type => n = m
                   ELSE /\ trace[i].type = "small" => RatLess(RatOne, m)
                        /\ trace[i].type \in {"large", "medium"} => m = RatOne

\* an overview-seeking search that returned a large and a medium chunk
C23_Witness ==
    /\ pc = "returned"
    /\ user_wants_overview(original_query)
    /\ \E i, j \in 1..Len(trace) : trace[i].type = "large" /\ trace[j].type = "medium"

\* 1 + weight * (tokens of the query found among the title tokens / tokens
\* of the query), weight = num / den
ExpectedBoost(words, title_words, num, den) ==
    IF words = {} THEN RatOne
    ELSE Rat(den * Cardinality(words) + num * Cardinality(words \cap title_words),
             den * Cardinality(words))

\* C24: the refined-query factor is 1 + 0.5 * the matched fraction of the
\* refined query's tokens and the original-query factor 1 + 0.3 * the
\* matched fraction of the original query's tokens; each is 1 without
\* overlap or with an empty query, and never above 1.5 and 1.3
C24_ExactMatchBoost ==
    pc = "returned" =>
        \A i \in 1..Len(trace) :
            LET title_words == TitleWords(Lower(trace[i].page_title))
                query_words == SplitSet(Lower(query))
                original_query_words == SplitSet(Lower(original_query))
                fq == Multiplier(trace[i].blocks.exact_query)
                fo == Multiplier(trace[i].blocks.exact_original)
            IN  /\ fq = ExpectedBoost(query_words, title_words, 1, 2)
                /\ fo = ExpectedBoost(original_query_words, title_words, 3, 10)
                /\ query_words \cap title_words = {} => fq = RatOne
                /\ original_query_words \cap title_words = {} => fo = RatOne
                /\ ~RatLess(<<3, 2>>, fq)
                /\ ~RatLess(<<13, 10>>, fo)

\* a refined query of which some but not all tokens are in the title, and
\* an original query with a token in the title
C24_Witness ==
    /\ pc = "returned"
    /\ query # original_query
    /\ \E i \in 1..Len(trace) :
          /\ RatLess(RatOne, Multiplier(trace[i].blocks.exact_query))
          /\ RatLess(Multiplier(trace[i].blocks.exact_query), <<3, 2>>)
          /\ RatLess(RatOne, Multiplier(trace[i].blocks.exact_original))

\* C25: a result gets the authoritative boost of at most one tier, 1.5 or
\* 1.3, and the topic boost 1.2 at most once
C25_OneTierOneTopicBoost ==
    pc = "returned" =>
        \A i \in 1..Len(trace) :
            /\ trace[i].blocks.authoritative \in { << >>, << <<3, 2>> >>, << <<13, 10>> >> }
            /\ trace[i].blocks.topic \in { << >>, << <<6, 5>> >> }

\* a result whose title matches both tiers, for a query with two words
\* that match the page
C25_Witness ==
    /\ pc = "returned"
    /\ \E i \in 1..Len(trace) :
          LET page_title == Lower(trace[i].page_title)
          IN  /\ Contains(page_title, s_network_configuration_sp)
              /\ \E pattern \in GuidePatterns : Contains(page_title, pattern)
              /\ trace[i].blocks.authoritative = << <<3, 2>> >>
              /\ trace[i].blocks.topic = << <<6, 5>> >>
              /\ \E w1, w2 \in TopicWords(query, original_query) :
                    /\ w1 # w2
                    /\ w1 \in topic_keys /\ w2 \in topic_keys
                    /\ \E term \in topic_mappings(w1) : Contains(page_title, term)
                    /\ \E term \in topic_mappings(w2) : Contains(page_title, term)

(* ------------------------ hits and chunk positions -------------------- *)
\* C27: every result comes from a hit whose position i satisfies
\* 0 <= i < len(chunks) and carries chunks[i]; a negative position (the -1
\* that pads a short hit list) produces no result
C27_ResultsFromValidPositions ==
    pc = "returned" =>
        LET valid == { i \in 1..Len(hits) :
                          hits[i].idx >= 0 /\ hits[i].idx < Len(Val(chunks)) }
        IN  /\ Len(Results) = Cardinality(valid)
            /\ \A r \in 1..Len(Results) :
                  \E i \in valid : Results[r].full_chunk = Val(chunks)[hits[i].idx + 1]

(* --------------------------- a load that fails ------------------------ *)
\* C28: a load_index call that returns False leaves the manager's index
\* and chunks exactly what they were before the call
C28_FailedLoadChangesNothing ==
    [][(Idle /\ Idle' /\ ret'.op = "load_index" /\ ret'.value = FALSE)
          => (index' = index /\ chunks' = chunks)]_vars

(* ----------------------------- save and load -------------------------- *)
\* C22: after save_index(index, chunks) has returned, load_index on a fresh
\* manager returns True and get_stats then reports the total_vectors,
\* total_chunks and vector dimension of what was saved
C22_SaveLoadRoundTrip ==
    (saved # None /\ Val(saved).fresh) =>
        /\ ret.op = "load_index" => ret.value = TRUE
        /\ (ret.op = "get_stats" /\ index # None) =>
              /\ ret.value.status = "loaded"
              /\ ret.value.total_vectors = Len(Val(saved).index.vectors)
              /\ ret.value.total_chunks = Len(Val(saved).chunks)
              /\ ret.value.vector_dimension = Val(saved).index.d

\* the statistics of a fresh manager that loaded a saved index of three
\* vectors of dimension 3 from a directory that held another index before
C22_Witness ==
    /\ saved # None /\ Val(saved).fresh
    /\ ret.op = "get_stats" /\ ret.value.status = "loaded"
    /\ ret.value.total_vectors = 3
    /\ ret.value.vector_dimension = 3
    /\ ret.value.total_chunks = 1

(* ------------------------------ --no-refine --------------------------- *)
\* C26: a search command given --no-refine runs with refinement disabled:
\* use_refinement is false, no refiner is loaded and the search is called
\* with refine_query false, whatever other options are given
C26_NoRefineDisablesRefinement ==
    (cli.pc \in {"ready", "searching", "done", "failed"} /\ cli.options.no_refine) =>
        /\ ~cli.use_refinement
        /\ ~query_refiner
        /\ cli.pc \in {"searching", "done"} => ~refine_query

(* --------------------------- leaving the loop ------------------------- *)
\* C29: search_interactive leaves its loop on 'quit', 'exit', 'q' and on a
\* keyboard interrupt, and once standard input has ended: after an input()
\* call met the end of input the loop is not back at the prompt; a search
\* that raised leaves the loop running
C29_InteractiveLoopExits ==
    /\ session.pc \in {"prompt", "search", "exited"} =>
          /\ session.last \in {"break", "interrupt"} => session.pc = "exited"
          /\ session.last = "eof" => session.pc = "exited"
          /\ session.last = "error" => session.pc = "prompt"

(* ------------------------------ cleanup ------------------------------- *)
\* C30: cleanup_old_data(days_old) does not raise, on whatever day of the
\* month it runs; its cutoff is exactly days_old days before the current
\* date, and it deletes the search_history and scraping_sessions rows older
\* than the cutoff and no others
C30_CleanupCutoff ==
    db.pc \in {"done", "raised"} =>
        /\ db.pc = "done"
        /\ db.cutoff = Some(Ordinal(db.today) - db.days_old)
        /\ db.search_history =
              { r \in db.stored_searches : Ordinal(db.today) - r < db.days_old }
        /\ db.scraping_sessions =
              { r \in db.stored_sessions : Ordinal(db.today) - r < db.days_old }
====
